---- MODULE Spec2Model ----
(***************************************************************************)
(* Pronunciation assessment engine of the speech-recognition service:      *)
(* PronunciationAnalyzer.analyze_pronunciation and the stages it awaits    *)
(* (src/ai-services/speech-recognition/src/services/                       *)
(* pronunciation_analyzer.py).                                             *)
(*                                                                         *)
(* Numbers.  Similarities and alignment costs are kept in hundredths       *)
(* (1.0 is 100, 0.3 is 30).  Scores that are means are exact fractions     *)
(* <<n, d>> in lowest terms.  FSI levels are kept in tenths (5.0 is 50).   *)
(* Text is a sequence of one-character strings.                            *)
(***************************************************************************)
EXTENDS Integers, Sequences, FiniteSets, TLC

VARIABLES
    pc,                  \* position of the request inside analyze_pronunciation
    language_code,       \* request.language_code
    reference_text,      \* request.reference_text
    audio_data,          \* request.audio_data: [bytes, samples, sample_rate]
    cosine_raw,          \* panphon/scipy: 1 - cosine distance of two distinct encodings
    raising,             \* units on which the feature lookup raises
    audio_features,      \* feature bundle of _extract_audio_features
    reference_phonetics, \* result of _get_reference_phonetics
    phonemizer_calls,    \* the phonemizer calls that have returned or raised
    analyzer,            \* the fields of the analyzer object (self.*)
    suspended,           \* the locals of a second request suspended at an await
    recognition,         \* SpeechProcessor: transcript, duration, speaking rate
    actual_phonetics,    \* result of _extract_actual_phonetics
    alignment,           \* result of _align_phonetics: <<ref, act, similarity>>
    phoneme_analyses,    \* result of _analyze_phonemes
    word_analyses,       \* result of _analyze_words
    scores,              \* result of _calculate_scores
    response,            \* the PronunciationAnalysisResponse, once built
    error,               \* the exception analyze_pronunciation re-raised
    failures             \* history: the internal failures that happened so far

vars == <<pc, language_code, reference_text, audio_data, cosine_raw, raising,
          audio_features, reference_phonetics, phonemizer_calls,
          actual_phonetics, alignment, phoneme_analyses, word_analyses,
          scores, response, error, failures, analyzer, suspended,
          recognition>>

----------------------------------------------------------------------------
(* Bounds of the model *)

MaxRefLen == 3     \* longest reference sequence drawn for the aligner
MaxActLen == 4     \* longest actual sequence drawn for the aligner
MaxPhonLen == 2    \* longest sequence the external phonemizer returns
MaxLabelLen == 2   \* longest label sequence the external classifier returns

----------------------------------------------------------------------------
(* Generic helpers *)

Min(a, b) == IF a <= b THEN a ELSE b
Max(a, b) == IF a >= b THEN a ELSE b

SeqsUpTo(S, n) == UNION {[1..k -> S] : k \in 0..n}

Reverse(s) == [k \in 1..Len(s) |-> s[Len(s) + 1 - k]]

RECURSIVE SumSeq(_)
SumSeq(s) == IF s = <<>> THEN 0 ELSE s[1] + SumSeq(Tail(s))

RECURSIVE GCD(_, _)
GCD(a, b) == IF b = 0 THEN a ELSE GCD(b, a % b)

\* the fraction n/d (d > 0, n >= 0) in lowest terms
Frac(n, d) == LET g == GCD(n, d) IN <<n \div g, d \div g>>
FracAdd(f, g) == Frac(f[1] * g[2] + g[1] * f[2], f[2] * g[2])
FracGeq(f, g) == f[1] * g[2] >= g[1] * f[2]
FracLeq(f, g) == FracGeq(g, f)

----------------------------------------------------------------------------
(* Phonetic units and the similarity function *)

\* units the aligner is exercised on: two with a feature encoding, one without
AlignUnits == {"t", "d", "T"}
\* the placeholder unit of _extract_actual_phonetics
Placeholder == "?"
\* characters of the reference texts
TextChars == {"t", "e", "s", "w", "o", "r", "d", "h", "l"}
\* the whitespace characters of the reference texts: space and tab
Whitespace == {" ", "\t"}
Units == AlignUnits \cup {Placeholder} \cup TextChars \cup {"\t"}

\* panphon.FeatureTable.word_to_vector_list gives a (non-zero) encoding: IPA
\* letters only, not "T" and not the placeholder
HasFeatures(u) == u \in TextChars

\* str.lower()
Lower(u) == IF u = "T" THEN "t" ELSE u

\* outcomes of 1 - cosine(ref_vector, actual_vector) for distinct encodings
CosineValues == {-20, 50, 100}

(* a variant that returns the cosine value without clamping it to [0, 1] *)
Mut_calculate_phoneme_similarity_noclamp(ref_phoneme, actual_phoneme) ==
    IF ref_phoneme = actual_phoneme THEN 100
    ELSE IF ref_phoneme = "" \/ actual_phoneme = "" THEN 0
    ELSE IF ref_phoneme \in raising \/ actual_phoneme \in raising THEN 50
    ELSE IF HasFeatures(ref_phoneme) /\ HasFeatures(actual_phoneme)
         THEN cosine_raw
    ELSE IF Lower(ref_phoneme) = Lower(actual_phoneme) THEN 100 ELSE 30

(* a variant that tests for an empty side before testing for equality and
   scores an absent side like any other mismatch *)
Mut_calculate_phoneme_similarity_empty(ref_phoneme, actual_phoneme) ==
    IF ref_phoneme = "" \/ actual_phoneme = "" THEN 30
    ELSE IF ref_phoneme = actual_phoneme THEN 100
    ELSE IF ref_phoneme \in raising \/ actual_phoneme \in raising THEN 50
    ELSE IF HasFeatures(ref_phoneme) /\ HasFeatures(actual_phoneme)
         THEN Max(0, Min(100, cosine_raw))
    ELSE IF Lower(ref_phoneme) = Lower(actual_phoneme) THEN 100 ELSE 30

calculate_phoneme_similarity(ref_phoneme, actual_phoneme) ==
    IF ref_phoneme = actual_phoneme THEN 100
    ELSE IF ref_phoneme = "" \/ actual_phoneme = "" THEN 0
    \* the feature lookup raised: except branch
    ELSE IF ref_phoneme \in raising \/ actual_phoneme \in raising THEN 50
    ELSE IF HasFeatures(ref_phoneme) /\ HasFeatures(actual_phoneme)
         THEN Max(0, Min(100, cosine_raw))
    \* fallback to string similarity
    ELSE IF Lower(ref_phoneme) = Lower(actual_phoneme) THEN 100 ELSE 30

\* did a similarity computation of the cost matrix take the except branch
SimilarityRaised(reference, actual) ==
    \E i \in 1..Len(reference), j \in 1..Len(actual) :
        /\ reference[i] # actual[j]
        /\ reference[i] \in raising \/ actual[j] \in raising

----------------------------------------------------------------------------
(* _align_phonetics *)

\* row 0 of the cost matrix: cost_matrix[0][j] = j
BaseRow(act_len) == [c \in 1..(act_len + 1) |-> (c - 1) * 100]

(* a variant whose substitution cost adds the similarity instead of
   1 - similarity *)
RECURSIVE Mut_FillRow_cost(_, _, _, _, _)
Mut_FillRow_cost(reference, actual, prev, i, row) ==
    IF Len(row) = Len(actual) + 1 THEN row
    ELSE LET j == Len(row)
             similarity == calculate_phoneme_similarity(reference[i], actual[j])
             substitution_cost == prev[j] + similarity
             insertion_cost == row[j] + 100
             deletion_cost == prev[j + 1] + 100
         IN  Mut_FillRow_cost(reference, actual, prev, i,
                     Append(row, Min(substitution_cost,
                                     Min(insertion_cost, deletion_cost))))

\* row i (i >= 1), filled left to right; row[j + 1] is cost_matrix[i][j]
RECURSIVE FillRow(_, _, _, _, _)
FillRow(reference, actual, prev, i, row) ==
    IF Len(row) = Len(actual) + 1 THEN row
    ELSE LET j == Len(row)
             similarity == calculate_phoneme_similarity(reference[i], actual[j])
             substitution_cost == prev[j] + (100 - similarity)
             insertion_cost == row[j] + 100
             deletion_cost == prev[j + 1] + 100
         IN  FillRow(reference, actual, prev, i,
                     Append(row, Min(substitution_cost,
                                     Min(insertion_cost, deletion_cost))))

\* rows 0..ref_len; CostMatrix(...)[i + 1][j + 1] is cost_matrix[i][j]
RECURSIVE FillMatrix(_, _, _)
FillMatrix(reference, actual, rows) ==
    IF Len(rows) = Len(reference) + 1 THEN rows
    ELSE LET i == Len(rows)
         IN  FillMatrix(reference, actual,
                        Append(rows, FillRow(reference, actual, rows[i], i,
                                             <<i * 100>>)))

CostMatrix(reference, actual) ==
    FillMatrix(reference, actual, <<BaseRow(Len(actual))>>)

(* a variant without the two loops that handle the remaining units *)
RECURSIVE Mut_Backtrack_noremainder(_, _, _, _, _, _)
Mut_Backtrack_noremainder(reference, actual, cost_matrix, i, j, acc) ==
    IF i > 0 /\ j > 0 THEN
        LET current_cost == cost_matrix[i + 1][j + 1]
            diag_cost == cost_matrix[i][j]
            left_cost == cost_matrix[i + 1][j]
            similarity == calculate_phoneme_similarity(reference[i], actual[j])
        IN  IF current_cost = diag_cost + (100 - similarity)
            THEN Mut_Backtrack_noremainder(reference, actual, cost_matrix,
                     i - 1, j - 1,
                     Append(acc, <<reference[i], actual[j], similarity>>))
            ELSE IF current_cost = left_cost + 100
            THEN Mut_Backtrack_noremainder(reference, actual, cost_matrix,
                     i, j - 1, Append(acc, <<"", actual[j], 0>>))
            ELSE Mut_Backtrack_noremainder(reference, actual, cost_matrix,
                     i - 1, j, Append(acc, <<reference[i], "", 0>>))
    ELSE acc

(* a variant that tests the insertion before the substitution *)
RECURSIVE Mut_Backtrack_insertionfirst(_, _, _, _, _, _)
Mut_Backtrack_insertionfirst(reference, actual, cost_matrix, i, j, acc) ==
    IF i > 0 /\ j > 0 THEN
        LET current_cost == cost_matrix[i + 1][j + 1]
            diag_cost == cost_matrix[i][j]
            left_cost == cost_matrix[i + 1][j]
            similarity == calculate_phoneme_similarity(reference[i], actual[j])
        IN  IF current_cost = left_cost + 100
            THEN Mut_Backtrack_insertionfirst(reference, actual, cost_matrix,
                     i, j - 1, Append(acc, <<"", actual[j], 0>>))
            ELSE IF current_cost = diag_cost + (100 - similarity)
            THEN Mut_Backtrack_insertionfirst(reference, actual, cost_matrix,
                     i - 1, j - 1,
                     Append(acc, <<reference[i], actual[j], similarity>>))
            ELSE Mut_Backtrack_insertionfirst(reference, actual, cost_matrix,
                     i - 1, j, Append(acc, <<reference[i], "", 0>>))
    ELSE IF i > 0 THEN
        Mut_Backtrack_insertionfirst(reference, actual, cost_matrix, i - 1, j,
                                     Append(acc, <<reference[i], "", 0>>))
    ELSE IF j > 0 THEN
        Mut_Backtrack_insertionfirst(reference, actual, cost_matrix, i, j - 1,
                                     Append(acc, <<"", actual[j], 0>>))
    ELSE acc

(* a variant that pairs the units diagonally without looking at the costs *)
RECURSIVE Mut_Backtrack_diagonal(_, _, _, _, _, _)
Mut_Backtrack_diagonal(reference, actual, cost_matrix, i, j, acc) ==
    IF i > 0 /\ j > 0 THEN
        Mut_Backtrack_diagonal(reference, actual, cost_matrix, i - 1, j - 1,
            Append(acc, <<reference[i], actual[j],
                          calculate_phoneme_similarity(reference[i],
                                                       actual[j])>>))
    ELSE IF i > 0 THEN
        Mut_Backtrack_diagonal(reference, actual, cost_matrix, i - 1, j,
                               Append(acc, <<reference[i], "", 0>>))
    ELSE IF j > 0 THEN
        Mut_Backtrack_diagonal(reference, actual, cost_matrix, i, j - 1,
                               Append(acc, <<"", actual[j], 0>>))
    ELSE acc

\* the backtracking loops; the entries are appended last pair first
RECURSIVE Backtrack(_, _, _, _, _, _)
Backtrack(reference, actual, cost_matrix, i, j, acc) ==
    IF i > 0 /\ j > 0 THEN
        LET current_cost == cost_matrix[i + 1][j + 1]
            diag_cost == cost_matrix[i][j]
            left_cost == cost_matrix[i + 1][j]
            similarity == calculate_phoneme_similarity(reference[i], actual[j])
        IN  IF current_cost = diag_cost + (100 - similarity)
            THEN Backtrack(reference, actual, cost_matrix, i - 1, j - 1,
                           Append(acc, <<reference[i], actual[j], similarity>>))
            ELSE IF current_cost = left_cost + 100
            THEN Backtrack(reference, actual, cost_matrix, i, j - 1,
                           Append(acc, <<"", actual[j], 0>>))
            ELSE Backtrack(reference, actual, cost_matrix, i - 1, j,
                           Append(acc, <<reference[i], "", 0>>))
    ELSE IF i > 0 THEN
        Backtrack(reference, actual, cost_matrix, i - 1, j,
                  Append(acc, <<reference[i], "", 0>>))
    ELSE IF j > 0 THEN
        Backtrack(reference, actual, cost_matrix, i, j - 1,
                  Append(acc, <<"", actual[j], 0>>))
    ELSE acc

(* a variant that forgets to reverse the backtracked entries *)
Mut_AlignNormal_noreverse(reference, actual) ==
    Backtrack(reference, actual, CostMatrix(reference, actual),
              Len(reference), Len(actual), <<>>)

\* the try branch: cost matrix, backtrack, reverse
AlignNormal(reference, actual) ==
    Reverse(Backtrack(reference, actual, CostMatrix(reference, actual),
                      Len(reference), Len(actual), <<>>))

(* a variant that pairs only the overlapping range, range(min_len) *)
Mut_AlignFallback_minlen(reference, actual) ==
    [k \in 1..Min(Len(reference), Len(actual)) |->
        <<reference[k], actual[k], 50>>]

(* a variant that pads the shorter sequence with its last unit instead of
   the empty string *)
Mut_AlignFallback_repeat(reference, actual) ==
    [k \in 1..Max(Len(reference), Len(actual)) |->
        <<IF k <= Len(reference) THEN reference[k]
          ELSE IF reference = <<>> THEN "" ELSE reference[Len(reference)],
          IF k <= Len(actual) THEN actual[k]
          ELSE IF actual = <<>> THEN "" ELSE actual[Len(actual)],
          50>>]

\* the except branch: simple 1:1 alignment
AlignFallback(reference, actual) ==
    [k \in 1..Max(Len(reference), Len(actual)) |->
        <<IF k <= Len(reference) THEN reference[k] ELSE "",
          IF k <= Len(actual) THEN actual[k] ELSE "",
          50>>]

----------------------------------------------------------------------------
(* The request and the external capabilities *)

\* keys of FSI_LANGUAGES the model uses ("en" is not one of them)
FSI_LANGUAGES == {"fr", "ur"}
Languages == FSI_LANGUAGES \cup {"en"}
\* keys of self.epitran_transliterators after initialize()
epitran_transliterators == {"ur"}

TestWord == <<"t", "e", "s", "t", " ", "w", "o", "r", "d">>
HelloWorld == <<"h", "e", "l", "l", "o", " ", "w", "o", "r", "l", "d">>
TabText == <<"t", "\t", "d">>
Texts == {TestWord, HelloWorld, TabText, <<"t", "d">>, <<" ">>}

\* request.audio_data and what the audio processor decodes it to
AudioInputs == {[bytes |-> 4, samples |-> 2, sample_rate |-> 2],
                [bytes |-> 2, samples |-> 1, sample_rate |-> 2],
                [bytes |-> 0, samples |-> 0, sample_rate |-> 2]}

RaisingSets == {{}, {"d"}}

\* what the phonemizers (Epitran, eSpeak) may return
PhonemizerOutputs == SeqsUpTo({"t", "d"}, MaxPhonLen)
\* what the per-segment classification may return
ClassifierOutputs == SeqsUpTo({"t", "d"}, MaxLabelLen)

None == [absent |-> TRUE]

\* str.split(): the maximal runs of non-whitespace characters
RECURSIVE SplitFrom(_, _, _)
SplitFrom(text, word, words) ==
    IF text = <<>> THEN (IF word = <<>> THEN words ELSE Append(words, word))
    ELSE IF Head(text) \in Whitespace
         THEN SplitFrom(Tail(text), <<>>,
                        IF word = <<>> THEN words ELSE Append(words, word))
         ELSE SplitFrom(Tail(text), Append(word, Head(text)), words)

Split(text) == SplitFrom(text, <<>>, <<>>)

\* list(text.replace(' ', ''))
ReplaceSpaces(text) == SelectSeq(text, LAMBDA c : c # " ")

----------------------------------------------------------------------------
(* Scoring helpers *)

PlaceholderCount == 10

\* self.fsi_thresholds: level (tenths) -> threshold (hundredths)
fsi_thresholds ==
    [level \in {0, 5, 10, 15, 20, 25, 30, 35, 40, 45, 50} |->
        CASE level = 0 -> 0    [] level = 5 -> 30   [] level = 10 -> 45
          [] level = 15 -> 55  [] level = 20 -> 65  [] level = 25 -> 73
          [] level = 30 -> 80  [] level = 35 -> 85  [] level = 40 -> 90
          [] level = 45 -> 95  [] level = 50 -> 98]

(* a variant that walks the table from the lowest level up *)
Mut_estimate_fsi_level_lowest(overall_score) ==
    LET reached == {level \in DOMAIN fsi_thresholds :
                        FracGeq(overall_score, <<fsi_thresholds[level], 100>>)}
    IN  IF reached = {} THEN 0
        ELSE CHOOSE level \in reached : \A other \in reached : level <= other

(* a variant that needs the score to exceed the threshold *)
Mut_estimate_fsi_level_strict(overall_score) ==
    LET reached == {level \in DOMAIN fsi_thresholds :
                        ~FracLeq(overall_score, <<fsi_thresholds[level], 100>>)}
    IN  IF reached = {} THEN 0
        ELSE CHOOSE level \in reached : \A other \in reached : other <= level

\* the first level, from the highest down, whose threshold the score reaches
estimate_fsi_level(overall_score) ==
    LET reached == {level \in DOMAIN fsi_thresholds :
                        FracGeq(overall_score, <<fsi_thresholds[level], 100>>)}
    IN  IF reached = {} THEN 0
        ELSE CHOOSE level \in reached : \A other \in reached : other <= level

(* a variant whose top band starts at 0.85 *)
Mut_determine_quality_rating_generous(score) ==
    IF FracGeq(score, <<85, 100>>) THEN "excellent"
    ELSE IF FracGeq(score, <<75, 100>>) THEN "good"
    ELSE IF FracGeq(score, <<60, 100>>) THEN "fair"
    ELSE IF FracGeq(score, <<40, 100>>) THEN "poor"
    ELSE "very_poor"

(* a variant whose bands exclude their lower edge *)
Mut_determine_quality_rating_strict(score) ==
    IF ~FracLeq(score, <<90, 100>>) THEN "excellent"
    ELSE IF ~FracLeq(score, <<75, 100>>) THEN "good"
    ELSE IF ~FracLeq(score, <<60, 100>>) THEN "fair"
    ELSE IF ~FracLeq(score, <<40, 100>>) THEN "poor"
    ELSE "very_poor"

determine_quality_rating(score) ==
    IF FracGeq(score, <<90, 100>>) THEN "excellent"
    ELSE IF FracGeq(score, <<75, 100>>) THEN "good"
    ELSE IF FracGeq(score, <<60, 100>>) THEN "fair"
    ELSE IF FracGeq(score, <<40, 100>>) THEN "poor"
    ELSE "very_poor"

\* (word_count / duration) * 60, duration = <<n, d>> seconds
calculate_wpm(text, duration) ==
    IF duration[1] <= 0 THEN <<0, 1>>
    ELSE Frac(Len(Split(text)) * 60 * duration[2], duration[1])

estimate_phoneme_count(word) == Max(1, Len(word) \div 2)

\* a variant that gives every word one second, whatever the duration
Mut_estimate_word_boundaries_unit(words, duration) ==
    [k \in 1..Len(words) |-> <<Frac(k - 1, 1), Frac(k, 1)>>]

\* word i of n gets (i * duration / n, (i + 1) * duration / n), i from 0
estimate_word_boundaries(words, duration) ==
    [k \in 1..Len(words) |->
        <<Frac((k - 1) * duration[1], duration[2] * Len(words)),
          Frac(k * duration[1], duration[2] * Len(words))>>]

generate_feedback ==
    [common_errors |-> <<"Consonant cluster simplification">>,
     strengths |-> <<"Good vowel pronunciation">>,
     suggestions |-> <<"Practice stress patterns">>,
     register_feedback |-> "Appropriate formality level"]

(* a variant that sums the similarities without dividing by their number *)
Mut_MeanOfHundredths_sum(s) == Frac(SumSeq(s), 100)

\* np.mean of a non-empty list of hundredths
MeanOfHundredths(s) == Frac(SumSeq(s), 100 * Len(s))

RECURSIVE SumFracs(_)
SumFracs(s) == IF s = <<>> THEN <<0, 1>> ELSE FracAdd(s[1], SumFracs(Tail(s)))

(* a variant that takes the first value for the mean *)
Mut_MeanOfFracs_first(s) == s[1]

\* np.mean of a non-empty list of fractions
MeanOfFracs(s) == LET t == SumFracs(s) IN Frac(t[1], t[2] * Len(s))

(* a variant without the upper bound *)
Mut_InUnit_lower(f) == FracGeq(f, <<0, 1>>)

InUnit(f) == FracGeq(f, <<0, 1>>) /\ FracLeq(f, <<1, 1>>)

\* 0 <= v <= 5, v in tenths of a level
validate_fsi_level(v) == 0 <= v /\ v <= 50

\* the validators of PronunciationAnalysisResponse all pass
ValidResponse(s, fsi_level) ==
    /\ InUnit(s.overall_score) /\ InUnit(s.fluency_score)
    /\ InUnit(s.rhythm_score) /\ InUnit(s.intonation_score)
    /\ InUnit(s.clarity_score)
    /\ validate_fsi_level(fsi_level)

----------------------------------------------------------------------------
(* analyze_pronunciation, one action per awaited stage *)

\* the analyzer fields after __init__ and initialize()
InitialAnalyzer ==
    [fsi_thresholds |-> fsi_thresholds,
     epitran_transliterators |-> epitran_transliterators,
     pronunciation_models |-> {"indo_european"},
     cultural_contexts |-> {"formal_markers", "informal_markers"},
     is_initialized |-> TRUE]

Idle ==
    /\ analyzer = InitialAnalyzer
    /\ suspended = None
    /\ recognition = None
    /\ audio_features = None
    /\ phonemizer_calls = <<>>
    /\ phoneme_analyses = <<>>
    /\ word_analyses = <<>>
    /\ scores = None
    /\ response = None
    /\ error = "none"
    /\ failures = {}

\* a request arrives at an initialized analyzer
Init ==
    /\ pc = "start"
    /\ language_code \in Languages
    /\ reference_text \in Texts
    /\ audio_data \in AudioInputs
    /\ cosine_raw \in CosineValues
    /\ raising \in RaisingSets
    /\ reference_phonetics = <<>>
    /\ actual_phonetics = <<>>
    /\ alignment = <<>>
    /\ Idle

\* the exception leaves through the except clause of analyze_pronunciation
Raise(exc) ==
    /\ pc' = "failed"
    /\ error' = exc

\* language check, then _extract_audio_features (with _extract_formants)
ExtractAudioFeatures ==
    /\ pc = "start"
    /\ \/ /\ language_code \notin FSI_LANGUAGES
          /\ Raise("ValueError")
          /\ UNCHANGED <<audio_features, failures>>
       \/ /\ language_code \in FSI_LANGUAGES
          /\ \/ \* decoding or a librosa feature raises: re-raised
                /\ Raise("FeatureExtractionError")
                /\ failures' = failures \cup {"audio"}
                /\ UNCHANGED audio_features
             \/ \E formants_ok \in BOOLEAN :
                /\ audio_features' =
                       [sample_rate |-> audio_data.sample_rate,
                        duration |-> Frac(audio_data.samples,
                                          audio_data.sample_rate),
                        formants |-> IF formants_ok THEN "peaks" ELSE "zeros"]
                /\ failures' = IF formants_ok THEN failures
                               ELSE failures \cup {"formants"}
                /\ pc' = "reference"
                /\ UNCHANGED error
    /\ UNCHANGED <<language_code, reference_text, audio_data, cosine_raw,
                   raising, reference_phonetics, actual_phonetics, alignment,
                   phoneme_analyses, word_analyses, scores, response>>
    /\ UNCHANGED <<phonemizer_calls, analyzer, suspended, recognition>>

\* the except branch of _get_reference_phonetics
get_reference_phonetics_fallback(text) == ReplaceSpaces(text)

\* Epitran for the registered languages, the eSpeak backend for the others
phonemizer(language) ==
    IF language \in analyzer.epitran_transliterators
    THEN "epitran" ELSE "espeak"

(* a variant whose except clause re-raises instead of falling back to the
   characters of the text *)
Mut_GetReferencePhonetics_reraise ==
    /\ pc = "reference"
    /\ \/ /\ \E phonetics \in PhonemizerOutputs :
                reference_phonetics' = phonetics
          /\ phonemizer_calls' = <<[step |-> phonemizer(language_code),
                                    ok |-> TRUE]>>
          /\ pc' = "actual"
          /\ UNCHANGED <<failures, error>>
       \/ /\ Raise("PhonemizerError")
          /\ phonemizer_calls' = <<[step |-> phonemizer(language_code),
                                    ok |-> FALSE]>>
          /\ failures' = failures \cup {"phonemization"}
          /\ UNCHANGED reference_phonetics
    /\ UNCHANGED <<language_code, reference_text, audio_data, cosine_raw,
                   raising, audio_features, actual_phonetics, alignment,
                   phoneme_analyses, word_analyses, scores, response>>
    /\ UNCHANGED <<analyzer, suspended, recognition>>

(* a variant that registers a transliterator for the language of the
   request in the analyzer's table when it has phonemized the text *)
Mut_GetReferencePhonetics_register ==
    /\ pc = "reference"
    /\ \/ /\ \E phonetics \in PhonemizerOutputs :
                reference_phonetics' = phonetics
          /\ phonemizer_calls' = <<[step |-> phonemizer(language_code),
                                    ok |-> TRUE]>>
          /\ analyzer' =
                 [analyzer EXCEPT !.epitran_transliterators =
                                      @ \cup {language_code}]
          /\ pc' = "actual"
          /\ UNCHANGED failures
       \/ /\ reference_phonetics' =
                 get_reference_phonetics_fallback(reference_text)
          /\ phonemizer_calls' = <<[step |-> phonemizer(language_code),
                                    ok |-> FALSE]>>
          /\ pc' = "actual"
          /\ failures' = failures \cup {"phonemization"}
          /\ UNCHANGED analyzer
       \/ /\ pc' = "waiting"
          /\ failures' = failures \cup {"unresponsive"}
          /\ UNCHANGED <<reference_phonetics, phonemizer_calls, analyzer>>
    /\ UNCHANGED <<language_code, reference_text, audio_data, cosine_raw,
                   raising, audio_features, actual_phonetics, alignment,
                   phoneme_analyses, word_analyses, scores, response, error,
                   suspended, recognition>>

GetReferencePhonetics ==
    /\ pc = "reference"
    /\ \/ \* the one phonemizer of the language returns
          /\ \E phonetics \in PhonemizerOutputs :
                reference_phonetics' = phonetics
          /\ phonemizer_calls' = <<[step |-> phonemizer(language_code),
                                    ok |-> TRUE]>>
          /\ pc' = "actual"
          /\ UNCHANGED failures
       \/ \* it raises: the except branch takes the characters of the text
          /\ reference_phonetics' =
                 get_reference_phonetics_fallback(reference_text)
          /\ phonemizer_calls' = <<[step |-> phonemizer(language_code),
                                    ok |-> FALSE]>>
          /\ pc' = "actual"
          /\ failures' = failures \cup {"phonemization"}
       \/ \* it never returns: the call is made without a timeout, so
          \* analyze_pronunciation stays inside it
          /\ pc' = "waiting"
          /\ failures' = failures \cup {"unresponsive"}
          /\ UNCHANGED <<reference_phonetics, phonemizer_calls>>
    /\ UNCHANGED <<language_code, reference_text, audio_data, cosine_raw,
                   raising, audio_features, actual_phonetics, alignment,
                   phoneme_analyses, word_analyses, scores, response, error>>
    /\ UNCHANGED <<analyzer, suspended, recognition>>

\* the except branch of _extract_actual_phonetics
actual_phonetics_placeholder == [k \in 1..PlaceholderCount |-> Placeholder]

ExtractActualPhonetics ==
    /\ pc = "actual"
    /\ \/ \* one label per segment from the classification capability
          /\ \E phonemes \in ClassifierOutputs \cup {reference_phonetics} :
                actual_phonetics' = phonemes
          /\ UNCHANGED failures
       \/ \* segmentation or classification raises
          /\ actual_phonetics' = actual_phonetics_placeholder
          /\ failures' = failures \cup {"classification"}
    /\ pc' = "align"
    /\ UNCHANGED <<language_code, reference_text, audio_data, cosine_raw,
                   raising, audio_features, reference_phonetics, alignment,
                   phoneme_analyses, word_analyses, scores, response, error>>
    /\ UNCHANGED <<phonemizer_calls, analyzer, suspended, recognition>>

AlignPhonetics ==
    /\ pc = "align"
    /\ \/ /\ alignment' = AlignNormal(reference_phonetics, actual_phonetics)
          /\ failures' =
                 IF SimilarityRaised(reference_phonetics, actual_phonetics)
                 THEN failures \cup {"similarity"} ELSE failures
       \/ \* anything else in the try block raises (the allocation)
          /\ alignment' = AlignFallback(reference_phonetics, actual_phonetics)
          /\ failures' = failures \cup {"alignment"}
    /\ pc' = "phonemes"
    /\ UNCHANGED <<language_code, reference_text, audio_data, cosine_raw,
                   raising, audio_features, reference_phonetics,
                   actual_phonetics, phoneme_analyses, word_analyses, scores,
                   response, error>>
    /\ UNCHANGED <<phonemizer_calls, analyzer, suspended, recognition>>

\* the PhonemeAnalysis of every entry that is not an insertion
analyze_phonemes(align) ==
    LET kept == SelectSeq(align, LAMBDA e : e[1] # "")
        made == [k \in 1..Len(kept) |->
                    [phoneme |-> kept[k][1],
                     actual |-> IF kept[k][2] = "" THEN "?" ELSE kept[k][2],
                     accuracy_score |-> kept[k][3]]]
    IN  \* the accuracy validator raises: except branch returns []
        IF \E k \in 1..Len(made) : made[k].accuracy_score \notin 0..100
        THEN <<>> ELSE made

AnalyzePhonemes ==
    /\ pc = "phonemes"
    /\ phoneme_analyses' = analyze_phonemes(alignment)
    /\ pc' = "words"
    /\ UNCHANGED <<language_code, reference_text, audio_data, cosine_raw,
                   raising, audio_features, reference_phonetics,
                   actual_phonetics, alignment, word_analyses, scores,
                   response, error, failures>>
    /\ UNCHANGED <<phonemizer_calls, analyzer, suspended, recognition>>

(* a variant that never advances phoneme_idx: every word takes its phonemes
   from the start of the list *)
RECURSIVE Mut_WordLoop_restart(_, _, _, _, _, _)
Mut_WordLoop_restart(words, boundaries, analyses, k, phoneme_idx, acc) ==
    IF k > Len(words) THEN acc
    ELSE LET word_phoneme_count == estimate_phoneme_count(words[k])
             word_phonemes ==
                 SubSeq(analyses, 1, Min(Len(analyses), word_phoneme_count))
             accuracy_score ==
                 IF word_phonemes # <<>>
                 THEN MeanOfHundredths([p \in 1..Len(word_phonemes) |->
                                           word_phonemes[p].accuracy_score])
                 ELSE <<1, 2>>
         IN  Mut_WordLoop_restart(words, boundaries, analyses, k + 1,
                      phoneme_idx,
                      Append(acc, [word |-> words[k],
                                   start_time |-> boundaries[k][1],
                                   end_time |-> boundaries[k][2],
                                   accuracy_score |-> accuracy_score,
                                   phonemes |-> word_phonemes]))

\* the loop of _analyze_words from word k on, phoneme_idx phonemes consumed
RECURSIVE WordLoop(_, _, _, _, _, _)
WordLoop(words, boundaries, analyses, k, phoneme_idx, acc) ==
    IF k > Len(words) THEN acc
    ELSE LET word_phoneme_count == estimate_phoneme_count(words[k])
             word_phonemes ==
                 SubSeq(analyses, phoneme_idx + 1,
                        Min(Len(analyses), phoneme_idx + word_phoneme_count))
             accuracy_score ==
                 IF word_phonemes # <<>>
                 THEN MeanOfHundredths([p \in 1..Len(word_phonemes) |->
                                           word_phonemes[p].accuracy_score])
                 ELSE <<1, 2>>
         IN  WordLoop(words, boundaries, analyses, k + 1,
                      phoneme_idx + word_phoneme_count,
                      Append(acc, [word |-> words[k],
                                   start_time |-> boundaries[k][1],
                                   end_time |-> boundaries[k][2],
                                   accuracy_score |-> accuracy_score,
                                   phonemes |-> word_phonemes]))

analyze_words(text, analyses, duration) ==
    LET words == Split(text)
    IN  \* duration / len(words) raises without words: except branch returns []
        IF words = <<>> THEN <<>>
        ELSE WordLoop(words, estimate_word_boundaries(words, duration),
                      analyses, 1, 0, <<>>)

AnalyzeWords ==
    /\ pc = "words"
    /\ word_analyses' = analyze_words(reference_text, phoneme_analyses,
                                      audio_features.duration)
    /\ pc' = "scores"
    /\ UNCHANGED <<language_code, reference_text, audio_data, cosine_raw,
                   raising, audio_features, reference_phonetics,
                   actual_phonetics, alignment, phoneme_analyses, scores,
                   response, error, failures>>
    /\ UNCHANGED <<phonemizer_calls, analyzer, suspended, recognition>>

calculate_scores(words) ==
    IF words = <<>>
    THEN [overall_score |-> <<0, 1>>, fluency_score |-> <<0, 1>>,
          rhythm_score |-> <<0, 1>>, intonation_score |-> <<0, 1>>,
          clarity_score |-> <<0, 1>>, pause_frequency |-> <<0, 1>>,
          average_pause_duration |-> <<0, 1>>]
    ELSE [overall_score |->
              MeanOfFracs([k \in 1..Len(words) |-> words[k].accuracy_score]),
          fluency_score |-> Frac(80, 100), rhythm_score |-> Frac(70, 100),
          intonation_score |-> Frac(75, 100), clarity_score |-> Frac(85, 100),
          pause_frequency |-> <<2, 1>>, average_pause_duration |-> <<1, 2>>]

CalculateScores ==
    /\ pc = "scores"
    /\ scores' = calculate_scores(word_analyses)
    /\ pc' = "respond"
    /\ UNCHANGED <<language_code, reference_text, audio_data, cosine_raw,
                   raising, audio_features, reference_phonetics,
                   actual_phonetics, alignment, phoneme_analyses,
                   word_analyses, response, error, failures>>
    /\ UNCHANGED <<phonemizer_calls, analyzer, suspended, recognition>>

\* level, feedback, cultural score, metrics and the response constructor
Respond ==
    /\ pc = "respond"
    /\ LET fsi_level == estimate_fsi_level(scores.overall_score)
           feedback == generate_feedback
           audio_duration == Frac(audio_data.bytes, audio_features.sample_rate)
       IN  IF ValidResponse(scores, fsi_level)
           THEN /\ response' =
                     [overall_score |-> scores.overall_score,
                      fsi_estimated_level |-> fsi_level,
                      quality_rating |->
                          determine_quality_rating(scores.overall_score),
                      fluency_score |-> scores.fluency_score,
                      rhythm_score |-> scores.rhythm_score,
                      intonation_score |-> scores.intonation_score,
                      clarity_score |-> scores.clarity_score,
                      words |-> word_analyses,
                      common_errors |-> feedback.common_errors,
                      strengths |-> feedback.strengths,
                      improvement_suggestions |-> feedback.suggestions,
                      words_per_minute |->
                          calculate_wpm(reference_text, audio_duration),
                      pause_frequency |-> scores.pause_frequency,
                      average_pause_duration |-> scores.average_pause_duration,
                      cultural_appropriateness |-> Frac(90, 100),
                      register_appropriateness |-> feedback.register_feedback,
                      audio_duration |-> audio_duration,
                      model_version |-> "1.0.0",
                      language_code |-> language_code]
                /\ pc' = "done"
                /\ UNCHANGED error
           ELSE \* a validator of the response model raises
                /\ Raise("ValidationError")
                /\ UNCHANGED response
    /\ UNCHANGED <<language_code, reference_text, audio_data, cosine_raw,
                   raising, audio_features, reference_phonetics,
                   actual_phonetics, alignment, phoneme_analyses,
                   word_analyses, scores, failures>>
    /\ UNCHANGED <<phonemizer_calls, analyzer, suspended, recognition>>

Next ==
    \/ ExtractAudioFeatures
    \/ GetReferencePhonetics
    \/ ExtractActualPhonetics
    \/ AlignPhonetics
    \/ AnalyzePhonemes
    \/ AnalyzeWords
    \/ CalculateScores
    \/ Respond

Spec == Init /\ [][Next]_vars

----------------------------------------------------------------------------
(* The /analyze-pronunciation endpoint in front of the analyzer *)

\* reference_text.strip() is empty
IsBlank(text) == \A k \in 1..Len(text) : text[k] \in Whitespace

EndpointInit ==
    /\ pc = "endpoint"
    /\ language_code \in Languages
    /\ reference_text \in Texts
    /\ audio_data \in AudioInputs
    /\ cosine_raw \in CosineValues
    /\ raising \in RaisingSets
    /\ reference_phonetics = <<>>
    /\ actual_phonetics = <<>>
    /\ alignment = <<>>
    /\ Idle

(* a variant that validates the language only, as the analyzer itself does *)
Mut_AnalyzeEndpoint_languageonly ==
    /\ pc = "endpoint"
    /\ IF language_code \notin FSI_LANGUAGES
       THEN pc' = "rejected" /\ error' = "HTTP400"
       ELSE \/ Raise("HTTP500")
            \/ pc' = "start" /\ UNCHANGED error
    /\ UNCHANGED <<language_code, reference_text, audio_data, cosine_raw,
                   raising, audio_features, reference_phonetics,
                   actual_phonetics, alignment, phoneme_analyses,
                   word_analyses, scores, response, failures>>
    /\ UNCHANGED <<phonemizer_calls, analyzer, suspended, recognition>>

\* input validation, audio processing and the request handed to the analyzer
AnalyzeEndpoint ==
    /\ pc = "endpoint"
    /\ IF language_code \notin FSI_LANGUAGES \/ IsBlank(reference_text)
       THEN \* HTTPException(status_code=400)
            pc' = "rejected" /\ error' = "HTTP400"
       ELSE \/ \* reading or processing the upload, or building the request,
               \* raises: HTTPException(status_code=500)
               Raise("HTTP500")
            \/ pc' = "start" /\ UNCHANGED error
    /\ UNCHANGED <<language_code, reference_text, audio_data, cosine_raw,
                   raising, audio_features, reference_phonetics,
                   actual_phonetics, alignment, phoneme_analyses,
                   word_analyses, scores, response, failures>>
    /\ UNCHANGED <<phonemizer_calls, analyzer, suspended, recognition>>

EndpointNext ==
    \/ AnalyzeEndpoint
    \/ Next

EndpointSpec == EndpointInit /\ [][EndpointNext]_vars

----------------------------------------------------------------------------
(* The aligner alone: _align_phonetics applied to every pair of sequences *)

AlignInit ==
    /\ pc = "align"
    /\ language_code = "fr"
    /\ reference_text = <<>>
    /\ audio_data = [bytes |-> 0, samples |-> 0, sample_rate |-> 2]
    /\ cosine_raw \in CosineValues
    /\ raising \in RaisingSets
    /\ reference_phonetics \in SeqsUpTo(AlignUnits, MaxRefLen)
    /\ actual_phonetics \in SeqsUpTo(AlignUnits, MaxActLen)
    /\ alignment = <<>>
    /\ Idle

AlignNext == AlignPhonetics

AlignSpec == AlignInit /\ [][AlignNext]_vars

----------------------------------------------------------------------------
(* The level estimate, the rating and the response constructor alone: the
   last stage applied to every score dictionary of a grid *)

\* how far the grid of scores reaches below 0 and above 1, in hundredths
ScoreMargin == 1

OverallGrid == {Frac(n, 100) : n \in (0 - ScoreMargin)..(100 + ScoreMargin)}
EdgeScores == {<<0 - 1, 100>>, <<0, 1>>, <<1, 1>>, <<101, 100>>}
\* levels, in tenths, at and beyond the ends of the scale
EdgeLevels == {0 - 5, 0, 25, 50, 55}

ScoreInit ==
    /\ pc = "respond"
    /\ language_code = "fr"
    /\ reference_text = TestWord
    /\ audio_data = [bytes |-> 4, samples |-> 2, sample_rate |-> 2]
    /\ cosine_raw = 100
    /\ raising = {}
    /\ audio_features = [sample_rate |-> 2, duration |-> <<1, 1>>,
                         formants |-> "peaks"]
    /\ reference_phonetics = <<>>
    /\ phonemizer_calls = <<>>
    /\ analyzer = InitialAnalyzer
    /\ suspended = None
    /\ recognition = None
    /\ actual_phonetics = <<>>
    /\ alignment = <<>>
    /\ phoneme_analyses = <<>>
    /\ word_analyses = <<>>
    /\ \E overall \in OverallGrid :
       \E fluency \in EdgeScores, rhythm \in EdgeScores,
          intonation \in EdgeScores, clarity \in EdgeScores :
           scores = [overall_score |-> overall, fluency_score |-> fluency,
                     rhythm_score |-> rhythm, intonation_score |-> intonation,
                     clarity_score |-> clarity, pause_frequency |-> <<2, 1>>,
                     average_pause_duration |-> <<1, 2>>]
    /\ response = None
    /\ error = "none"
    /\ failures = {}

ScoreNext == Respond

ScoreSpec == ScoreInit /\ [][ScoreNext]_vars

----------------------------------------------------------------------------
(* Two requests on one analyzer, interleaved at the awaits of
   analyze_pronunciation: the variables hold the locals of the request that
   is running, suspended those of the other *)

Frame ==
    [pc |-> pc, language_code |-> language_code,
     reference_text |-> reference_text, audio_data |-> audio_data,
     audio_features |-> audio_features,
     reference_phonetics |-> reference_phonetics,
     phonemizer_calls |-> phonemizer_calls,
     actual_phonetics |-> actual_phonetics, alignment |-> alignment,
     phoneme_analyses |-> phoneme_analyses, word_analyses |-> word_analyses,
     scores |-> scores, response |-> response, error |-> error,
     failures |-> failures]

\* the frame of a request that has not started yet
NewFrame(language, text, audio) ==
    [pc |-> "start", language_code |-> language, reference_text |-> text,
     audio_data |-> audio, audio_features |-> None,
     reference_phonetics |-> <<>>, phonemizer_calls |-> <<>>,
     actual_phonetics |-> <<>>, alignment |-> <<>>,
     phoneme_analyses |-> <<>>, word_analyses |-> <<>>, scores |-> None,
     response |-> None, error |-> "none", failures |-> {}]

FirstRequest ==
    NewFrame("fr", TestWord, [bytes |-> 4, samples |-> 2, sample_rate |-> 2])
SecondRequest ==
    NewFrame("ur", HelloWorld, [bytes |-> 2, samples |-> 1, sample_rate |-> 2])

\* the answers of the phonemizer and of the classifier in these runs
ConcAnswers == {<<>>, <<"t">>, <<"d">>}

ConcInit ==
    /\ pc = FirstRequest.pc
    /\ language_code = FirstRequest.language_code
    /\ reference_text = FirstRequest.reference_text
    /\ audio_data = FirstRequest.audio_data
    /\ cosine_raw = 50
    /\ raising = {}
    /\ analyzer = InitialAnalyzer
    /\ suspended = SecondRequest
    /\ recognition = None
    /\ audio_features = None
    /\ reference_phonetics = <<>>
    /\ phonemizer_calls = <<>>
    /\ actual_phonetics = <<>>
    /\ alignment = <<>>
    /\ phoneme_analyses = <<>>
    /\ word_analyses = <<>>
    /\ scores = None
    /\ response = None
    /\ error = "none"
    /\ failures = {}

\* one stage of the running request, the capabilities answering from ConcAnswers
ConcStep ==
    /\ Next
    /\ "phonemization" \notin failures' => reference_phonetics' \in ConcAnswers
    /\ "classification" \notin failures' => actual_phonetics' \in ConcAnswers

(* the event loop leaves the running request at an await, or after it has
   returned or raised, and resumes the other one; a request inside a
   phonemizer call that does not return keeps the loop *)
Switch ==
    /\ suspended # None
    /\ pc \in {"start", "reference", "actual", "align", "phonemes", "words",
                "scores", "respond", "done", "failed"}
    /\ suspended.pc \notin {"done", "failed", "waiting"}
    /\ pc' = suspended.pc
    /\ language_code' = suspended.language_code
    /\ reference_text' = suspended.reference_text
    /\ audio_data' = suspended.audio_data
    /\ audio_features' = suspended.audio_features
    /\ reference_phonetics' = suspended.reference_phonetics
    /\ phonemizer_calls' = suspended.phonemizer_calls
    /\ actual_phonetics' = suspended.actual_phonetics
    /\ alignment' = suspended.alignment
    /\ phoneme_analyses' = suspended.phoneme_analyses
    /\ word_analyses' = suspended.word_analyses
    /\ scores' = suspended.scores
    /\ response' = suspended.response
    /\ error' = suspended.error
    /\ failures' = suspended.failures
    /\ suspended' = Frame
    /\ UNCHANGED <<cosine_raw, raising, analyzer, recognition>>

ConcNext ==
    \/ ConcStep
    \/ Switch

ConcSpec == ConcInit /\ [][ConcNext]_vars

----------------------------------------------------------------------------
(* SpeechProcessor._calculate_speaking_rate applied to every transcript and
   duration of a grid *)

\* the durations run from -MaxHalfSeconds/2 to MaxHalfSeconds/2 seconds
MaxHalfSeconds == 6

Durations == {Frac(n, 2) : n \in (0 - MaxHalfSeconds)..MaxHalfSeconds}
Transcripts == Texts \cup {<<>>}

(* a variant that returns 0.0 for a duration that is not positive *)
Mut_calculate_speaking_rate_zero(transcript, duration) ==
    IF duration[1] <= 0 THEN <<0, 1>>
    ELSE Frac(Len(Split(transcript)) * 60 * duration[2], duration[1])

\* (word_count / duration) * 60, or None
calculate_speaking_rate(transcript, duration) ==
    IF duration[1] <= 0 THEN None
    ELSE Frac(Len(Split(transcript)) * 60 * duration[2], duration[1])

RateInit ==
    /\ pc = "rate"
    /\ \E transcript \in Transcripts, duration \in Durations :
           recognition = [transcript |-> transcript,
                          audio_duration |-> duration,
                          speaking_rate |-> None]
    /\ language_code = "fr"
    /\ reference_text = <<>>
    /\ audio_data = [bytes |-> 0, samples |-> 0, sample_rate |-> 2]
    /\ cosine_raw = 100
    /\ raising = {}
    /\ analyzer = InitialAnalyzer
    /\ suspended = None
    /\ audio_features = None
    /\ reference_phonetics = <<>>
    /\ phonemizer_calls = <<>>
    /\ actual_phonetics = <<>>
    /\ alignment = <<>>
    /\ phoneme_analyses = <<>>
    /\ word_analyses = <<>>
    /\ scores = None
    /\ response = None
    /\ error = "none"
    /\ failures = {}

CalculateSpeakingRate ==
    /\ pc = "rate"
    /\ recognition' =
           [recognition EXCEPT !.speaking_rate =
                calculate_speaking_rate(recognition.transcript,
                                        recognition.audio_duration)]
    /\ pc' = "rated"
    /\ UNCHANGED <<language_code, reference_text, audio_data, cosine_raw,
                   raising, audio_features, reference_phonetics,
                   phonemizer_calls, actual_phonetics, alignment,
                   phoneme_analyses, word_analyses, scores, response, error,
                   failures, analyzer, suspended>>

RateNext == CalculateSpeakingRate

RateSpec == RateInit /\ [][RateNext]_vars

----------------------------------------------------------------------------
(* Properties *)

Finished == pc \in {"done", "failed"}
\* the positions from which analyze_pronunciation takes its next step
Stages == {"start", "reference", "actual", "align", "phonemes", "words",
           "scores", "respond"}
Aligned == pc \notin {"start", "reference", "actual", "align"} /\ error = "none"
NormalPath == "alignment" \notin failures

Insertions == {k \in 1..Len(alignment) : alignment[k][1] = ""}
Deletions == {k \in 1..Len(alignment) : alignment[k][2] = ""}

\* s with the element at position p removed
RemoveAt(s, p) == [k \in 1..(Len(s) - 1) |-> IF k < p THEN s[k] ELSE s[k + 1]]

\* the alignment cap of the design (2,000 units there), scaled to the model
SequenceCap == 2

\* the failures the design says are recovered locally
Recoverable == {"phonemization", "classification", "similarity", "formants"}

(* C1: for the reference text "test word" and a classifier whose output is
   exactly the phonemization of the reference, with no stage failing, the
   response has overall_score 1.0, fsi_estimated_level 5.0 and no common
   errors. *)
C1_EndToEndPerfect ==
    (pc = "done" /\ reference_text = TestWord /\ failures = {}
        /\ reference_phonetics # <<>>
        /\ actual_phonetics = reference_phonetics)
    => /\ response.overall_score = <<1, 1>>
       /\ response.fsi_estimated_level = 50
       /\ response.common_errors = <<>>

(* C2: when the classifier yields only placeholder units, every alignment
   entry with a non-empty reference unit has similarity 0.0, overall_score is
   0.0, fsi_estimated_level is 0.0, and a response is returned. *)
C2_DegradedMode ==
    (Finished /\ failures = {"classification"}
        /\ actual_phonetics = actual_phonetics_placeholder)
    => /\ pc = "done"
       /\ \A k \in 1..Len(alignment) :
              alignment[k][1] # "" => alignment[k][3] = 0
       /\ response.overall_score = <<0, 1>>
       /\ response.fsi_estimated_level = 0

(* C3: with a supported language, as long as nothing failed but
   phonemization, classification, a similarity computation or formant
   extraction, the request is never aborted: it is at a stage from which it
   takes its next step, or it has ended with a response whose scores are
   all set. *)
C3_FailuresRecovered ==
    (language_code \in FSI_LANGUAGES /\ failures \subseteq Recoverable)
    => /\ pc # "failed"
       /\ error = "none"
       /\ pc \in Stages \cup {"done"}
       /\ pc = "done" =>
              /\ response # None
              /\ InUnit(response.overall_score)
              /\ InUnit(response.fluency_score)
              /\ InUnit(response.rhythm_score)
              /\ InUnit(response.intonation_score)
              /\ InUnit(response.clarity_score)
              /\ response.fsi_estimated_level \in DOMAIN fsi_thresholds
              /\ response.words = word_analyses

C3_Witness ==
    /\ pc = "done"
    /\ failures = Recoverable
    /\ response # None

(* C4: every entry of an alignment of sequences of non-empty units, on the
   normal path and on the fallback path, has its similarity in [0,1] and
   does not have both sides empty. *)
C4_EntriesWellFormed ==
    Aligned =>
        \A k \in 1..Len(alignment) :
            /\ alignment[k][3] \in 0..100
            /\ ~(alignment[k][1] = "" /\ alignment[k][2] = "")

C4_Witness ==
    /\ Aligned /\ NormalPath
    /\ cosine_raw < 0
    /\ \E k \in 1..Len(alignment) : alignment[k] = <<"t", "d", 0>>
    /\ Insertions # {}

(* C5: sim(a, a) = 1.0 for every unit a, and sim('', a) = 0.0 for every
   non-empty unit a, whatever the feature table does. *)
C5_SimilarityIdentityAndEmpty ==
    \A a \in Units \cup {""} :
        /\ calculate_phoneme_similarity(a, a) = 100
        /\ a # "" => /\ calculate_phoneme_similarity("", a) = 0
                     /\ calculate_phoneme_similarity(a, "") = 0

C5_Witness ==
    /\ Aligned /\ NormalPath
    /\ raising # {}
    /\ \E k \in 1..Len(alignment) :
           alignment[k][1] \in raising /\ alignment[k][2] = alignment[k][1]
                /\ alignment[k][3] = 100
    /\ \E k \in Insertions : alignment[k][3] = 0

(* C6: on the normal path, a sequence aligned against an identical copy
   gives one entry per unit, the k-th pairing unit k with unit k at
   similarity 1.0, and no insertion or deletion. *)
C6_IdenticalSequences ==
    (Aligned /\ NormalPath /\ actual_phonetics = reference_phonetics)
    => alignment = [k \in 1..Len(reference_phonetics) |->
                       <<reference_phonetics[k], reference_phonetics[k], 100>>]

C6_Witness ==
    /\ Aligned /\ NormalPath
    /\ actual_phonetics = reference_phonetics
    /\ Len(reference_phonetics) >= 2
    /\ reference_phonetics[1] # reference_phonetics[2]
    /\ Len(alignment) = Len(reference_phonetics)

(* C7: on the normal path, when actual is reference with one extra unit
   inserted at some position, the alignment has exactly one insertion entry,
   of similarity 0.0, and every other entry is a pairing of similarity 1.0. *)
OneInserted ==
    \E p \in 1..Len(actual_phonetics) :
        RemoveAt(actual_phonetics, p) = reference_phonetics

C7_OneInsertion ==
    (Aligned /\ NormalPath /\ OneInserted)
    => /\ Cardinality(Insertions) = 1
       /\ Len(alignment) = Len(actual_phonetics)
       /\ \A k \in 1..Len(alignment) :
              IF k \in Insertions
              THEN alignment[k][2] # "" /\ alignment[k][3] = 0
              ELSE alignment[k][2] # "" /\ alignment[k][3] = 100

C7_Witness ==
    /\ Aligned /\ NormalPath /\ OneInserted
    /\ Len(reference_phonetics) >= 2
    /\ Insertions = {2}

(* C8: on the normal path, an empty sequence aligned against a sequence of
   length n gives n entries in the order of that sequence, all insertions
   (empty reference) or all deletions (empty actual), each of similarity 0. *)
C8_EmptySequence ==
    (Aligned /\ NormalPath)
    => /\ reference_phonetics = <<>> =>
              alignment = [k \in 1..Len(actual_phonetics) |->
                              <<"", actual_phonetics[k], 0>>]
       /\ actual_phonetics = <<>> =>
              alignment = [k \in 1..Len(reference_phonetics) |->
                              <<reference_phonetics[k], "", 0>>]

C8_Witness ==
    /\ Aligned /\ NormalPath
    /\ reference_phonetics = <<>>
    /\ Len(actual_phonetics) >= 2
    /\ actual_phonetics[1] # actual_phonetics[2]
    /\ Len(alignment) = Len(actual_phonetics)

\* the positional pairing: similarity 0.5 on the overlapping range, the rest
\* of the longer sequence as deletions or insertions
PositionalPairing(with_rest) ==
    /\ Len(alignment) = Max(Len(reference_phonetics), Len(actual_phonetics))
    /\ \A k \in 1..Len(alignment) :
           /\ alignment[k][1] = IF k <= Len(reference_phonetics)
                                THEN reference_phonetics[k] ELSE ""
           /\ alignment[k][2] = IF k <= Len(actual_phonetics)
                                THEN actual_phonetics[k] ELSE ""
           /\ (with_rest \/ (k <= Len(reference_phonetics)
                              /\ k <= Len(actual_phonetics)))
                  => alignment[k][3] = 50

(* C9 as stated: whenever the alignment computation fails internally, a
   throwing similarity computation included, the result is the positional
   pairing. *)
C9_FallbackOnAnyFailure ==
    (Aligned /\ failures \cap {"alignment", "similarity"} # {})
    => PositionalPairing(FALSE)

(* C9 amended: a failure of the alignment computation outside the similarity
   function gives the positional pairing, every entry at similarity 0.5, the
   rest of the longer sequence as deletions or insertions; a throwing
   similarity computation alone does not leave the normal path, where each
   pairing it affected carries similarity 0.5. *)
C9_FallbackOutsideSimilarity ==
    Aligned =>
        /\ ~NormalPath => PositionalPairing(TRUE)
        /\ NormalPath =>
              \A k \in 1..Len(alignment) :
                  (/\ alignment[k][1] # "" /\ alignment[k][2] # ""
                   /\ alignment[k][1] # alignment[k][2]
                   /\ {alignment[k][1], alignment[k][2]} \cap raising # {})
                  => alignment[k][3] = 50

C9_Witness ==
    /\ Aligned /\ ~NormalPath
    /\ Len(reference_phonetics) >= 1
    /\ Len(actual_phonetics) > Len(reference_phonetics)
    /\ alignment[Len(alignment)][1] = ""
    /\ alignment[1][3] = 50

(* C10: an alignment is rejected with SequenceTooLongError whenever the
   reference or the actual sequence is longer than the cap. *)
C10_TooLongRejected ==
    (pc # "align" /\ pc # "start" /\ pc # "reference" /\ pc # "actual"
        /\ (Len(reference_phonetics) > SequenceCap
            \/ Len(actual_phonetics) > SequenceCap))
    => error = "SequenceTooLongError" /\ alignment = <<>>

(* C11: once the word scorer has run, the accuracy of every word is the mean
   of the similarities of the phoneme entries attributed to that word, and it
   is exactly one half when no phoneme entry is attributed to it. *)
Scored == pc \in {"scores", "respond", "done"}

C11_WordAccuracyIsMean ==
    Scored =>
        \A k \in 1..Len(word_analyses) :
            LET w == word_analyses[k]
                sims == [p \in 1..Len(w.phonemes) |->
                            w.phonemes[p].accuracy_score]
            IN  IF w.phonemes = <<>>
                THEN w.accuracy_score = <<1, 2>>
                ELSE w.accuracy_score[1] * 100 * Len(sims)
                         = SumSeq(sims) * w.accuracy_score[2]

C11_Witness ==
    /\ pc = "done"
    /\ \E k \in 1..Len(word_analyses) :
           /\ Len(word_analyses[k].phonemes) = 2
           /\ word_analyses[k].phonemes[1].accuracy_score
                  # word_analyses[k].phonemes[2].accuracy_score
    /\ \E k \in 1..Len(word_analyses) : word_analyses[k].phonemes = <<>>

(* C12: the overall score of a response is the mean of the accuracies of its
   words, and is 0 when the response has no words. *)
C12_OverallIsMeanOfWords ==
    pc = "done" =>
        LET accs == [k \in 1..Len(response.words) |->
                        response.words[k].accuracy_score]
            total == SumFracs(accs)
        IN  IF accs = <<>>
            THEN response.overall_score = <<0, 1>>
            ELSE response.overall_score[1] * total[2] * Len(accs)
                     = total[1] * response.overall_score[2]

C12_Witness ==
    /\ pc = "done"
    /\ Len(response.words) = 2
    /\ response.words[1].accuracy_score # response.words[2].accuracy_score
    /\ response.words[1].accuracy_score # <<1, 2>>
    /\ response.overall_score \notin {<<0, 1>>, <<1, 2>>}

(* C13: for every overall score the level estimate is one of the eleven
   levels of the table, its threshold is at most the score unless the score is
   below the lowest threshold (then the estimate is 0.0), and no higher level
   has a threshold the score reaches; a returned response carries that
   estimate. *)
HasScores == pc \in {"respond", "done", "failed"} /\ scores # None

C13_EstimateIsHighestReached ==
    HasScores =>
        LET s == scores.overall_score
            estimate == estimate_fsi_level(s)
            Reaches(level) == s[1] * 100 >= fsi_thresholds[level] * s[2]
        IN  /\ estimate \in {0, 5, 10, 15, 20, 25, 30, 35, 40, 45, 50}
            /\ IF \E level \in DOMAIN fsi_thresholds : Reaches(level)
               THEN Reaches(estimate)
               ELSE estimate = 0
            /\ \A level \in DOMAIN fsi_thresholds :
                   level > estimate => ~Reaches(level)
            /\ pc = "done" => response.fsi_estimated_level = estimate

C13_Witness ==
    /\ pc = "done"
    /\ response.overall_score = <<73, 100>>
    /\ response.fsi_estimated_level = 25

(* C14: the level estimate never decreases when the overall score increases:
   no score of the grid at or above the current one gets a lower estimate and
   none at or below it gets a higher one; the estimate of 0.0 is 0.0 and the
   estimate of 0.98 is 5.0. *)
C14_EstimateMonotone ==
    HasScores =>
        LET s == scores.overall_score
            estimate == IF pc = "done" THEN response.fsi_estimated_level
                        ELSE estimate_fsi_level(s)
        IN  /\ \A other \in OverallGrid :
                   /\ s[1] * other[2] <= other[1] * s[2]
                          => estimate <= estimate_fsi_level(other)
                   /\ other[1] * s[2] <= s[1] * other[2]
                          => estimate_fsi_level(other) <= estimate
            /\ s = <<0, 1>> => estimate = 0
            /\ s = <<49, 50>> => estimate = 50

C14_Witness ==
    /\ pc = "done"
    /\ response.overall_score = <<49, 50>>
    /\ response.fsi_estimated_level = 50

(* C15: the quality rating of a response is fixed by its overall score alone:
   excellent from 0.90, good from 0.75, fair from 0.60, poor from 0.40 and
   very_poor below that, whatever the other scores are. *)
C15_RatingByOverallScore ==
    pc = "done" =>
        LET s == response.overall_score
            AtLeast(hundredths) == s[1] * 100 >= hundredths * s[2]
        IN  response.quality_rating =
                CASE AtLeast(90) -> "excellent"
                  [] ~AtLeast(90) /\ AtLeast(75) -> "good"
                  [] ~AtLeast(75) /\ AtLeast(60) -> "fair"
                  [] ~AtLeast(60) /\ AtLeast(40) -> "poor"
                  [] ~AtLeast(40) -> "very_poor"

C15_Witness ==
    /\ pc = "done"
    /\ response.overall_score = <<3, 4>>
    /\ response.quality_rating = "good"
    /\ response.fluency_score = <<0, 1>>
    /\ response.clarity_score = <<1, 1>>

(* C16: the response constructor rejects any overall, fluency, rhythm,
   intonation or clarity score outside [0,1] and any level outside [0,5], and
   accepts everything else; so a request whose scores fall outside fails with a
   validation error and every returned response has its five scores in [0,1]
   and its level in [0,5]. *)
InRange(f) == 0 <= f[1] /\ f[1] <= f[2]
FiveInRange(r) ==
    /\ InRange(r.overall_score) /\ InRange(r.fluency_score)
    /\ InRange(r.rhythm_score) /\ InRange(r.intonation_score)
    /\ InRange(r.clarity_score)

C16_OutOfRangeRejected ==
    HasScores =>
        /\ \A level \in EdgeLevels :
               ValidResponse(scores, level)
                   <=> (FiveInRange(scores) /\ level \in 0..50)
        /\ pc = "done" =>
               /\ FiveInRange(response)
               /\ response.fsi_estimated_level \in 0..50
        /\ ~FiveInRange(scores) =>
               pc # "done" /\ (pc = "failed" => error = "ValidationError")

C16_Witness ==
    /\ pc = "failed"
    /\ error = "ValidationError"
    /\ scores.clarity_score = <<101, 100>>
    /\ InRange(scores.overall_score) /\ InRange(scores.fluency_score)
    /\ InRange(scores.rhythm_score) /\ InRange(scores.intonation_score)

(* C17: the words per minute of a response are the number of
   whitespace-separated words of the reference text, divided by the audio
   duration and multiplied by 60, when the audio duration is positive ("hello
   world" over 1.0 s gives 120.0), and are absent when the audio duration is
   0. *)
IsSpace(c) == c \in {" ", "\t"}
WordStarts(text) ==
    {k \in 1..Len(text) :
        ~IsSpace(text[k]) /\ (k = 1 \/ IsSpace(text[k - 1]))}

C17_WordsPerMinute ==
    pc = "done" =>
        LET duration == response.audio_duration
            rate == response.words_per_minute
        IN  /\ duration[1] > 0 =>
                   /\ rate # None
                   /\ rate[1] * duration[1]
                          = Cardinality(WordStarts(reference_text)) * 60
                                * duration[2] * rate[2]
            /\ (reference_text = HelloWorld /\ duration = <<1, 1>>) =>
                   rate = <<120, 1>>
            /\ duration[1] = 0 => rate = None

(* C18: a request whose language is not supported, or whose reference text is
   empty or whitespace only, is rejected with a validation error (HTTP 400)
   at the endpoint, and no processing stage has run for it: no features, no
   phonetics, no alignment, no analyses, no scores and no response. *)
Invalid ==
    \/ language_code \notin {"fr", "ur"}
    \/ ~\E k \in 1..Len(reference_text) : reference_text[k] \notin {" ", "\t"}

C18_InvalidRejectedFirst ==
    Invalid =>
        /\ pc \in {"endpoint", "rejected"}
        /\ pc = "rejected" => error = "HTTP400"
        /\ audio_features = None
        /\ reference_phonetics = <<>> /\ actual_phonetics = <<>>
        /\ alignment = <<>>
        /\ phoneme_analyses = <<>> /\ word_analyses = <<>>
        /\ scores = None /\ response = None
        /\ failures = {}

C18_Witness ==
    /\ pc = "rejected"
    /\ error = "HTTP400"
    /\ language_code = "fr"
    /\ reference_text = <<" ">>

(* C19: reference phonemization follows a three-step chain: the
   transliteration table is tried first exactly when the language has one
   registered; the generic converter is tried otherwise and also after the
   table has failed; the characters of the text are used only after the
   generic converter has failed, and then the result is the text with all
   whitespace removed; the stage never fails the request. *)
StripWhitespace(text) == SelectSeq(text, LAMBDA c : c \notin {" ", "\t"})
Phonemized == phonemizer_calls # <<>>

C19_FallbackChain ==
    Phonemized =>
        LET calls == phonemizer_calls
            last == calls[Len(calls)]
        IN  /\ calls[1].step =
                   IF language_code \in {"ur"} THEN "epitran" ELSE "espeak"
            /\ \A k \in 1..Len(calls) :
                   (calls[k].step = "epitran" /\ ~calls[k].ok) =>
                       (k < Len(calls) /\ calls[k + 1].step = "espeak")
            /\ ~last.ok =>
                   /\ last.step = "espeak"
                   /\ reference_phonetics = StripWhitespace(reference_text)
            /\ error # "PhonemizerError"

(* C20: the calls to the phonemization and classification capabilities are
   bounded by a timeout: a request whose capability call got no answer is
   never left waiting inside the call; it is at a stage from which
   analyze_pronunciation goes on, with the fallback of the stage it was in, or
   it is done. *)
C20_CallsBoundedByTimeout ==
    "unresponsive" \in failures =>
        /\ pc \in (Stages \ {"start", "reference"}) \cup {"done"}
        /\ error = "none"

(* C21: two requests interleaved at their awaits share no mutable state: the
   analyzer fields stay as initialization left them, each request keeps its
   own language, text and audio, and what each request has computed so far,
   up to its response, is what its own inputs and its own capability answers
   give when the request runs alone. *)
Past(f, stage) ==
    /\ f.error = "none"
    /\ f.pc \in CASE stage = "align" ->
                       {"phonemes", "words", "scores", "respond", "done"}
                  [] stage = "phonemes" -> {"words", "scores", "respond", "done"}
                  [] stage = "words" -> {"scores", "respond", "done"}
                  [] stage = "scores" -> {"respond", "done"}
                  [] stage = "respond" -> {"done"}

RunsAlone(f) ==
    /\ f.audio_features # None =>
           /\ f.audio_features.sample_rate = f.audio_data.sample_rate
           /\ f.audio_features.duration =
                  Frac(f.audio_data.samples, f.audio_data.sample_rate)
    /\ f.phonemizer_calls # <<>> =>
           f.phonemizer_calls[1].step =
               IF f.language_code = "ur" THEN "epitran" ELSE "espeak"
    /\ Past(f, "align") =>
           f.alignment =
               IF "alignment" \in f.failures
               THEN AlignFallback(f.reference_phonetics, f.actual_phonetics)
               ELSE AlignNormal(f.reference_phonetics, f.actual_phonetics)
    /\ Past(f, "phonemes") =>
           f.phoneme_analyses = analyze_phonemes(f.alignment)
    /\ Past(f, "words") =>
           f.word_analyses = analyze_words(f.reference_text,
                                           f.phoneme_analyses,
                                           f.audio_features.duration)
    /\ Past(f, "scores") => f.scores = calculate_scores(f.word_analyses)
    /\ Past(f, "respond") =>
           /\ f.response.overall_score = f.scores.overall_score
           /\ f.response.fsi_estimated_level =
                  estimate_fsi_level(f.scores.overall_score)
           /\ f.response.words = f.word_analyses
           /\ f.response.language_code = f.language_code
           /\ f.response.audio_duration =
                  Frac(f.audio_data.bytes, f.audio_data.sample_rate)
           /\ f.response.words_per_minute =
                  calculate_wpm(f.reference_text, f.response.audio_duration)

SameRequest(f, g) ==
    /\ f.language_code = g.language_code
    /\ f.reference_text = g.reference_text
    /\ f.audio_data = g.audio_data

C21_NoSharedMutableState ==
    suspended # None =>
        /\ analyzer = InitialAnalyzer
        /\ \/ SameRequest(Frame, FirstRequest)
                  /\ SameRequest(suspended, SecondRequest)
           \/ SameRequest(Frame, SecondRequest)
                  /\ SameRequest(suspended, FirstRequest)
        /\ RunsAlone(Frame)
        /\ RunsAlone(suspended)

C21_Witness ==
    /\ suspended # None
    /\ pc = "done"
    /\ suspended.pc = "respond"
    /\ language_code = "fr"
    /\ response.overall_score # suspended.scores.overall_score
    /\ phonemizer_calls # suspended.phonemizer_calls

(* C22: _calculate_speaking_rate returns the number of whitespace-separated
   words of the transcript, divided by the duration and multiplied by 60, for
   every positive duration, and no value for every duration that is zero or
   negative. *)
C22_SpeakingRate ==
    pc = "rated" =>
        LET duration == recognition.audio_duration
            rate == recognition.speaking_rate
        IN  IF duration[1] > 0
            THEN /\ rate # None
                 /\ rate[1] * duration[1]
                        = Cardinality(WordStarts(recognition.transcript)) * 60
                              * duration[2] * rate[2]
            ELSE rate = None

C22_Witness ==
    /\ pc = "rated"
    /\ recognition.transcript = HelloWorld
    /\ recognition.audio_duration = <<1, 1>>
    /\ recognition.speaking_rate = <<120, 1>>

(* C23: the alignment returned on the normal path is optimal: the sum of its
   entry costs (1 - similarity for a pair, 1 for an insertion, 1 for a
   deletion) is cost_matrix[ref_len][act_len], the matrix has C[0][j] = j and
   C[i][0] = i, and for sequences of at most BruteForceLen units together
   that sum is the least cost of any global alignment of the two sequences,
   found by trying every alignment. *)
BruteForceLen == 7

EntryCost(e) == IF e[1] = "" \/ e[2] = "" THEN 100 ELSE 100 - e[3]
TotalCost(entries) == SumSeq([k \in 1..Len(entries) |-> EntryCost(entries[k])])

\* the least cost of aligning reference[i..] with actual[j..]
RECURSIVE BestCost(_, _, _, _)
BestCost(reference, actual, i, j) ==
    IF i > Len(reference) THEN (Len(actual) - j + 1) * 100
    ELSE IF j > Len(actual) THEN (Len(reference) - i + 1) * 100
    ELSE LET costs ==
                 {BestCost(reference, actual, i + 1, j + 1)
                      + (100 - calculate_phoneme_similarity(reference[i],
                                                            actual[j])),
                  BestCost(reference, actual, i, j + 1) + 100,
                  BestCost(reference, actual, i + 1, j) + 100}
         IN  CHOOSE least \in costs : \A other \in costs : least <= other

C23_AlignmentOptimal ==
    (Aligned /\ NormalPath) =>
        LET C == CostMatrix(reference_phonetics, actual_phonetics)
            ref_len == Len(reference_phonetics)
            act_len == Len(actual_phonetics)
        IN  /\ \A i \in 0..ref_len : C[i + 1][1] = i * 100
            /\ \A j \in 0..act_len : C[1][j + 1] = j * 100
            /\ TotalCost(alignment) = C[ref_len + 1][act_len + 1]
            /\ ref_len + act_len <= BruteForceLen =>
                   TotalCost(alignment)
                       = BestCost(reference_phonetics, actual_phonetics, 1, 1)

C23_Witness ==
    /\ Aligned /\ NormalPath
    /\ Len(reference_phonetics) + Len(actual_phonetics) = 7
    /\ Insertions # {}
    /\ \E k \in 1..Len(alignment) :
           /\ alignment[k][1] # "" /\ alignment[k][2] # ""
           /\ alignment[k][3] = 50
    /\ TotalCost(alignment) = 150

(* C24: at every cell where the backtrack chose among predecessors, the entry
   it produced is a pair whenever the diagonal predecessor attains the cell's
   cost, an insertion only when the diagonal one does not and the left one
   does, and a deletion only when neither of those two does. *)
\* the cell (i, j) at which the backtrack produced entry k
CellOf(k) ==
    <<Cardinality({e \in 1..k : alignment[e][1] # ""}),
      Cardinality({e \in 1..k : alignment[e][2] # ""})>>

DiagonalAttains(C, i, j) ==
    C[i + 1][j + 1] =
        C[i][j] + (100 - calculate_phoneme_similarity(reference_phonetics[i],
                                                      actual_phonetics[j]))
LeftAttains(C, i, j) == C[i + 1][j + 1] = C[i + 1][j] + 100
UpAttains(C, i, j) == C[i + 1][j + 1] = C[i][j + 1] + 100

C24_TieBreakOrder ==
    (Aligned /\ NormalPath) =>
        LET C == CostMatrix(reference_phonetics, actual_phonetics)
        IN  \A k \in 1..Len(alignment) :
                LET i == CellOf(k)[1]
                    j == CellOf(k)[2]
                IN  (i > 0 /\ j > 0) =>
                        IF DiagonalAttains(C, i, j)
                        THEN alignment[k][1] # "" /\ alignment[k][2] # ""
                        ELSE IF LeftAttains(C, i, j)
                        THEN alignment[k][1] = ""
                        ELSE alignment[k][2] = "" /\ UpAttains(C, i, j)

C24_Witness ==
    /\ Aligned /\ NormalPath
    /\ LET C == CostMatrix(reference_phonetics, actual_phonetics)
       IN  \E k \in 1..Len(alignment) :
               /\ CellOf(k)[1] > 0 /\ CellOf(k)[2] > 0
               /\ alignment[k][1] = ""
               /\ LeftAttains(C, CellOf(k)[1], CellOf(k)[2])
               /\ UpAttains(C, CellOf(k)[1], CellOf(k)[2])
               /\ ~DiagonalAttains(C, CellOf(k)[1], CellOf(k)[2])

(* C25: word scoring consumes the entries of the alignment that are not
   insertions in order: the phonemes of word k are the consecutive entries
   that start where the block of word k-1 ended, as many as the estimated
   phoneme count of the word (half its length, at least one) or as many as
   are left; so no entry belongs to two words and the blocks keep the order
   of the alignment. *)
Kept == SelectSeq(alignment, LAMBDA e : e[1] # "")
PhonemeCount(word) == IF Len(word) \div 2 >= 1 THEN Len(word) \div 2 ELSE 1
\* the number of entries that the words before word k ask for
AskedBefore(k) ==
    SumSeq([m \in 1..(k - 1) |-> PhonemeCount(word_analyses[m].word)])

C25_WordsConsumeBlocks ==
    Scored =>
        \A k \in 1..Len(word_analyses) :
            LET first == AskedBefore(k) + 1
                asked == PhonemeCount(word_analyses[k].word)
                left == IF Len(Kept) >= first THEN Len(Kept) - first + 1 ELSE 0
                taken == word_analyses[k].phonemes
            IN  /\ Len(taken) = IF asked <= left THEN asked ELSE left
                /\ \A p \in 1..Len(taken) :
                       /\ taken[p].phoneme = Kept[first + p - 1][1]
                       /\ taken[p].accuracy_score = Kept[first + p - 1][3]

C25_Witness ==
    /\ pc = "done"
    /\ Len(word_analyses) = 2
    /\ Insertions # {}
    /\ Len(word_analyses[1].phonemes) = 2
    /\ Len(word_analyses[2].phonemes) = 2
    /\ word_analyses[2].phonemes[1].phoneme = "s"

(* C26: every insertion entry of the alignment (empty reference side) is
   carried, for feedback, by a word of the analysis, and no insertion entry
   counts in the accuracy of a word: the accuracy of a word is the mean over
   its entries that have a reference side. *)
CarriedBy(k, i) ==
    \E p \in 1..Len(word_analyses[k].phonemes) :
        /\ word_analyses[k].phonemes[p].phoneme = ""
        /\ word_analyses[k].phonemes[p].actual = alignment[i][2]

OwnEntries(k) ==
    SelectSeq(word_analyses[k].phonemes, LAMBDA a : a.phoneme # "")

C26_InsertionsAttributed ==
    (Scored /\ word_analyses # <<>>) =>
        /\ \A i \in Insertions : \E k \in 1..Len(word_analyses) : CarriedBy(k, i)
        /\ \A k \in 1..Len(word_analyses) :
               OwnEntries(k) # <<>> =>
                   word_analyses[k].accuracy_score =
                       MeanOfHundredths([p \in 1..Len(OwnEntries(k)) |->
                                            OwnEntries(k)[p].accuracy_score])

(* C27: the word times divide the duration of the audio across the words in
   text order: the first word starts at 0, every word ends where the next one
   starts, the last word ends at the duration of the audio, and no word ends
   before it starts. *)
C27_WordTimesDivideDuration ==
    (Scored /\ word_analyses # <<>>) =>
        LET n == Len(word_analyses)
        IN  /\ n = Len(Split(reference_text))
            /\ \A k \in 1..n : word_analyses[k].word = Split(reference_text)[k]
            /\ word_analyses[1].start_time = <<0, 1>>
            /\ \A k \in 1..(n - 1) :
                   word_analyses[k].end_time = word_analyses[k + 1].start_time
            /\ word_analyses[n].end_time = audio_features.duration
            /\ \A k \in 1..n :
                   FracLeq(word_analyses[k].start_time, word_analyses[k].end_time)

C27_Witness ==
    /\ pc = "done"
    /\ Len(word_analyses) = 2
    /\ audio_features.duration = <<1, 1>>
    /\ word_analyses[1].end_time = <<1, 2>>
    /\ word_analyses[2].start_time = <<1, 2>>

(* C28: the alignment preserves both inputs, on the normal path and on the
   fallback path alike: the non-empty reference sides of the entries, read
   left to right, are the reference sequence, and the non-empty actual sides
   are the actual sequence; no unit is lost, duplicated or reordered. *)
SideOf(side) ==
    LET present == SelectSeq(alignment, LAMBDA e : e[side] # "")
    IN  [k \in 1..Len(present) |-> present[k][side]]

C28_AlignmentPreservesInputs ==
    Aligned =>
        /\ SideOf(1) = reference_phonetics
        /\ SideOf(2) = actual_phonetics

C28_Witness ==
    /\ Aligned /\ NormalPath
    /\ Insertions # {}
    /\ Deletions # {}
    /\ Len(reference_phonetics) = 3
    /\ SideOf(1) = reference_phonetics
    /\ SideOf(2) = actual_phonetics
    /\ \E k \in 1..Len(alignment) :
           alignment[k][1] # "" /\ alignment[k][2] # ""

(* C29: the audio_duration of a response is the duration the pipeline scored
   the request with, the duration of the feature bundle (decoded samples
   over sample rate): the last word ends at the audio_duration of the
   response and words_per_minute is the word count over that duration. *)
C29_ReportedDurationIsScoredDuration ==
    pc = "done" =>
        LET scored == audio_features.duration
            n == Len(response.words)
        IN  /\ response.audio_duration = scored
            /\ n > 0 => response.words[n].end_time = response.audio_duration
            /\ scored[1] > 0 =>
                   response.words_per_minute =
                       Frac(Len(Split(reference_text)) * 60 * scored[2],
                            scored[1])

(* C30: in every response the quality rating and the estimated level agree:
   the rating is excellent exactly when the level is 4.0 or more, and a
   very_poor rating comes only with a level of 0.0 or 0.5. *)
C30_RatingAgreesWithLevel ==
    pc = "done" =>
        /\ response.quality_rating = "excellent"
               <=> response.fsi_estimated_level >= 40
        /\ response.quality_rating = "very_poor"
               => response.fsi_estimated_level \in {0, 5}

C30_Witness ==
    /\ pc = "done"
    /\ response.overall_score = <<9, 10>>
    /\ response.quality_rating = "excellent"
    /\ response.fsi_estimated_level = 40

====
